---- MODULE Spec2Model ----
(***************************************************************************)
(* A model of notify.py: the notification script that parses a JSON        *)
(* payload from argv or stdin, extracts the conversation, formats a        *)
(* message and delivers it by e-mail.                                      *)
(*                                                                         *)
(* Text is a sequence of atoms: an atom is one whitespace or separator     *)
(* character (" ", "\n", ",") or a run of characters holding neither       *)
(* ("a", "Email", "human").  str.strip, str.split, str.lower and           *)
(* "\n\n".join act on such sequences as they act on the characters.        *)
(*                                                                         *)
(* A JSON value is a node [k, s, n, c]: k its kind, s its text (strings,   *)
(* numbers, booleans), c its children (lists, objects) and n the key it    *)
(* has in its parent object ("" elsewhere).                                *)
(***************************************************************************)
EXTENDS Integers, Sequences, FiniteSets, TLC

VARIABLES
    environ,     \* os.environ
    file,        \* the .env file
    argv,        \* sys.argv[1]
    stdin,       \* sys.stdin
    pc,          \* position of the program
    env,         \* what load_env returned
    channels,    \* what get_enabled_channels returned
    source,      \* parse_input's source
    event_type,  \* parse_input's event type
    data,        \* the payload
    stdinRead,   \* sys.stdin.read() was called
    message,     \* what format_message returned
    conv,        \* what extract_conversation returned
    results,     \* send_notification's mapping
    idx,         \* send_notification's position in the channel list
    ret,         \* how the handler call ended
    smtp,        \* the SMTP operations of the send_email call in progress
    connections, \* SMTP connections attempted in this run
    calls,       \* the functions called so far, in order
    handled,     \* the handler calls that ended, in order
    exitCode,    \* what main returned
    html         \* what _text_to_html returned

inputs == <<environ, file, argv, stdin>>
parsed == <<source, event_type, data, stdinRead>>
dispatch == <<results, idx, ret, handled>>
vars == <<inputs, pc, env, channels, parsed, message, conv, dispatch, smtp,
          connections, calls, exitCode, html>>

(***************************** text ****************************************)
IsSpace(a) == a \in {" ", "\n"}

RECURSIVE LStrip(_)
LStrip(s) == IF s # <<>> /\ IsSpace(Head(s)) THEN LStrip(Tail(s)) ELSE s

RECURSIVE RStrip(_)
RStrip(s) ==
    IF s # <<>> /\ IsSpace(s[Len(s)]) THEN RStrip(SubSeq(s, 1, Len(s) - 1)) ELSE s

\* str.strip()
Strip(s) == RStrip(LStrip(s))

\* sep.join(parts)
RECURSIVE Join(_, _)
Join(parts, sep) ==
    IF parts = <<>> THEN <<>>
    ELSE IF Len(parts) = 1 THEN parts[1]
    ELSE parts[1] \o sep \o Join(Tail(parts), sep)

(***************************** JSON values *********************************)
JNull == [k |-> "null", s |-> <<>>, n |-> "", c |-> <<>>]
JStr(t) == [k |-> "str", s |-> t, n |-> "", c |-> <<>>]
JNum(t) == [k |-> "num", s |-> t, n |-> "", c |-> <<>>]
JList(items) == [k |-> "list", s |-> <<>>, n |-> "", c |-> items]
JObj(members) == [k |-> "obj", s |-> <<>>, n |-> "", c |-> members]
\* the member `key: value` of an object
Mem(key, value) == [value EXCEPT !.n = key]

IsDict(j) == j.k = "obj"
IsStrJ(j) == j.k = "str"
IsList(j) == j.k = "list"

\* dict.get(key, default)
HasKey(o, key) == \E i \in 1..Len(o.c) : o.c[i].n = key
Get(o, key, default) ==
    IF HasKey(o, key)
    THEN LET i == CHOOSE i \in 1..Len(o.c) :
                      o.c[i].n = key /\ \A j \in (i + 1)..Len(o.c) : o.c[j].n # key
         IN  Mem("", o.c[i])
    ELSE default

\* what `for x in j` yields: the items of a list, the keys of a dict, the
\* characters of a string; any other value is not iterable (TypeError)
Iterable(j) == j.k \in {"list", "obj", "str"}
IterItems(j) ==
    IF j.k = "list" THEN j.c
    ELSE IF j.k = "obj" THEN [i \in 1..Len(j.c) |-> JStr(<<j.c[i].n>>)]
    ELSE [i \in 1..Len(j.s) |-> JStr(<<j.s[i]>>)]

\* x == "literal" for a JSON value x
EqStr(j, lit) == j.k = "str" /\ j.s = <<lit>>

(***************************** json.dumps **********************************)
IndentStep == <<" ", " ">>

RECURSIVE Spaces(_)
Spaces(level) == IF level = 0 THEN <<>> ELSE IndentStep \o Spaces(level - 1)

\* the escapes json.dumps applies inside a string literal
RECURSIVE EscapeJson(_)
EscapeJson(s) ==
    IF s = <<>> THEN <<>>
    ELSE (IF Head(s) = "\n" THEN <<"\\", "n">>
          ELSE IF Head(s) = "\"" THEN <<"\\", "\"">>
          ELSE IF Head(s) = "\\" THEN <<"\\", "\\">>
          ELSE <<Head(s)>>) \o EscapeJson(Tail(s))

Quoted(s) == <<"\"">> \o EscapeJson(s) \o <<"\"">>

RECURSIVE Dumps(_, _)
RECURSIVE DumpsItems(_, _, _)
\* json.dumps(j, ensure_ascii=False, indent=2), at nesting depth `level`
Dumps(j, level) ==
    IF j.k = "str" THEN Quoted(j.s)
    ELSE IF j.k = "num" THEN j.s
    ELSE IF j.k = "null" THEN <<"null">>
    ELSE IF j.c = <<>> THEN (IF j.k = "list" THEN <<"[", "]">> ELSE <<"{", "}">>)
    ELSE (IF j.k = "list" THEN <<"[">> ELSE <<"{">>)
         \o <<"\n">> \o DumpsItems(j.c, level + 1, j.k = "obj")
         \o <<"\n">> \o Spaces(level)
         \o (IF j.k = "list" THEN <<"]">> ELSE <<"}">>)

DumpsItems(items, level, keyed) ==
    LET one == Spaces(level)
               \o (IF keyed THEN Quoted(<<Head(items).n>>) \o <<":", " ">> ELSE <<>>)
               \o Dumps(Head(items), level)
    IN  IF Len(items) = 1 THEN one
        ELSE one \o <<",", "\n">> \o DumpsItems(Tail(items), level, keyed)

(***************************** extract_conversation ************************)
Msg(role, text) == [role |-> role, text |-> text]
Returned(msgs) == [raised |-> FALSE, msgs |-> msgs]
Raised == [raised |-> TRUE, msgs |-> <<>>]

TextsOk(texts) == [raised |-> FALSE, texts |-> texts]
TextsRaised == [raised |-> TRUE, texts |-> <<>>]

Blank == <<"\n", "\n">>

\* the loop over the fragments of a content list: `bare` says whether bare
\* strings count as fragments too (the codex branch) or not (claude-code)
RECURSIVE FragmentTexts(_, _, _)
FragmentTexts(items, bare, acc) ==
    IF items = <<>> THEN TextsOk(acc)
    ELSE LET c == Head(items) IN
        IF IsDict(c) /\ EqStr(Get(c, "type", JNull), "text")
        THEN LET t == Get(c, "text", JStr(<<>>)) IN
             IF ~IsStrJ(t) THEN TextsRaised   \* .strip() of a non-string
             ELSE FragmentTexts(Tail(items), bare,
                     IF Strip(t.s) # <<>> THEN Append(acc, Strip(t.s)) ELSE acc)
        ELSE IF bare /\ IsStrJ(c) /\ Strip(c.s) # <<>>
        THEN FragmentTexts(Tail(items), bare, Append(acc, Strip(c.s)))
        ELSE FragmentTexts(Tail(items), bare, acc)

\* the texts of one transcript item's `message`
MessageTexts(msg) ==
    IF IsDict(msg)
    THEN LET content == Get(msg, "content", JList(<<>>)) IN
         IF ~Iterable(content) THEN TextsRaised
         ELSE FragmentTexts(IterItems(content), FALSE, <<>>)
    ELSE IF IsStrJ(msg) /\ Strip(msg.s) # <<>> THEN TextsOk(<<Strip(msg.s)>>)
    ELSE TextsOk(<<>>)

IsTurnType(t) == EqStr(t, "human") \/ EqStr(t, "assistant")

RECURSIVE ExtractClaude(_, _)
ExtractClaude(items, acc) ==
    IF items = <<>> THEN Returned(acc)
    ELSE LET item == Head(items) IN
        IF ~IsDict(item) THEN Raised          \* item.get on a non-dict
        ELSE LET msg_type == Get(item, "type", JStr(<<>>)) IN
            IF ~IsTurnType(msg_type) THEN ExtractClaude(Tail(items), acc)
            ELSE LET role == IF EqStr(msg_type, "human") THEN "user" ELSE "assistant"
                     r == MessageTexts(Get(item, "message", JObj(<<>>)))
                 IN  IF r.raised THEN Raised
                     ELSE ExtractClaude(Tail(items),
                             IF r.texts # <<>>
                             THEN Append(acc, Msg(role, Join(r.texts, Blank)))
                             ELSE acc)

\* the text of `content`, a string or a list of fragments (codex)
ContentText(content) ==
    IF IsStrJ(content) /\ Strip(content.s) # <<>> THEN TextsOk(<<Strip(content.s)>>)
    ELSE IF IsList(content)
    THEN LET r == FragmentTexts(content.c, TRUE, <<>>) IN
         IF r.raised THEN TextsRaised
         ELSE IF r.texts # <<>> THEN TextsOk(<<Join(r.texts, Blank)>>)
         ELSE TextsOk(<<>>)
    ELSE TextsOk(<<>>)

\* the text of one entry: a bare string, or an object with `content`;
\* no text or the one text
EntryText(item) ==
    IF IsStrJ(item) /\ Strip(item.s) # <<>> THEN TextsOk(<<Strip(item.s)>>)
    ELSE IF IsDict(item) THEN ContentText(Get(item, "content", JStr(<<>>)))
    ELSE TextsOk(<<>>)

RECURSIVE ExtractInputs(_, _)
ExtractInputs(items, acc) ==
    IF items = <<>> THEN Returned(acc)
    ELSE LET r == EntryText(Head(items)) IN
        IF r.raised THEN Raised
        ELSE ExtractInputs(Tail(items),
                IF r.texts # <<>> THEN Append(acc, Msg("user", r.texts[1])) ELSE acc)

\* ExtractCodex without the fallback of lines 143-146
ExtractCodexNoFallback(d) ==
    LET input_msgs == Get(d, "input-messages", JList(<<>>))
        users == IF Iterable(input_msgs) THEN ExtractInputs(IterItems(input_msgs), <<>>)
                 ELSE Raised
        last == EntryText(Get(d, "last-assistant-message", JStr(<<>>)))
    IN  IF users.raised \/ last.raised THEN Raised
        ELSE Returned(users.msgs \o
                      (IF last.texts # <<>>
                       THEN <<Msg("assistant", last.texts[1])>> ELSE <<>>))

ExtractCodex(d) ==
    LET input_msgs == Get(d, "input-messages", JList(<<>>))
        users == IF Iterable(input_msgs) THEN ExtractInputs(IterItems(input_msgs), <<>>)
                 ELSE Raised
        last == EntryText(Get(d, "last-assistant-message", JStr(<<>>)))
    IN  IF users.raised \/ last.raised THEN Raised
        ELSE LET messages == users.msgs \o
                             (IF last.texts # <<>>
                              THEN <<Msg("assistant", last.texts[1])>> ELSE <<>>)
             IN  IF messages = <<>>
                 THEN Returned(<<Msg("assistant", Dumps(d, 0))>>)
                 ELSE Returned(messages)

extract_conversation(d, src) ==
    IF src = "claude-code"
    THEN LET transcript == Get(d, "transcript", JList(<<>>)) IN
         IF Iterable(transcript) THEN ExtractClaude(IterItems(transcript), <<>>)
         ELSE Raised
    ELSE IF src = "codex" THEN ExtractCodex(d)
    ELSE Returned(<<Msg("assistant", Dumps(d, 0))>>)

(***************************** configuration *******************************)
Keys == {"NOTIFY_CHANNELS", "SMTP_HOST", "SMTP_USER", "SMTP_PASSWORD",
         "EMAIL_FROM", "EMAIL_TO", "SMTP_PORT", "SMTP_USE_SSL"}

\* a mapping gives each key a value or nothing
Unset == [set |-> FALSE, v |-> <<>>]
Val(t) == [set |-> TRUE, v |-> t]
NoFile == [k \in Keys |-> Unset]

\* load_env: the mapping of the .env file, empty when there is no file
load_env(f) == IF f.exists THEN f.map ELSE NoFile

\* get_config: the process environment first, then the file, then the default
get_config(osenv, e, key, default) ==
    IF osenv[key].set THEN osenv[key].v
    ELSE IF e[key].set THEN e[key].v
    ELSE default

\* str.split(sep) for a one-atom separator
RECURSIVE SplitAcc(_, _, _)
SplitAcc(s, sep, cur) ==
    IF s = <<>> THEN <<cur>>
    ELSE IF Head(s) = sep THEN <<cur>> \o SplitAcc(Tail(s), sep, <<>>)
    ELSE SplitAcc(Tail(s), sep, Append(cur, Head(s)))

Split(s, sep) == SplitAcc(s, sep, <<>>)

\* str.lower()
LowerAtom(a) ==
    IF a = "Email" THEN "email"
    ELSE IF a = "SMS" THEN "sms"
    ELSE IF a = "TRUE" THEN "true"
    ELSE a

Lower(s) == [i \in 1..Len(s) |-> LowerAtom(s[i])]

StripsToText(t) == Strip(t) # <<>>

\* get_enabled_channels without the `if c.strip()` of line 62
get_enabled_channels_keeps_blanks(osenv, e) ==
    LET channels_str == get_config(osenv, e, "NOTIFY_CHANNELS", <<>>) IN
    IF channels_str = <<>> THEN <<>>
    ELSE LET kept == Split(channels_str, ",")
         IN  [i \in 1..Len(kept) |-> Lower(Strip(kept[i]))]

get_enabled_channels(osenv, e) ==
    LET channels_str == get_config(osenv, e, "NOTIFY_CHANNELS", <<>>) IN
    IF channels_str = <<>> THEN <<>>
    ELSE LET kept == SelectSeq(Split(channels_str, ","), StripsToText)
         IN  [i \in 1..Len(kept) |-> Lower(Strip(kept[i]))]

\* int(text): the text of a decimal number
Digits == {"0", "1", "2", "3", "4", "5", "6", "7", "8", "9"}
ParsesAsInt(t) == Strip(t) # <<>> /\ \A i \in 1..Len(Strip(t)) : Strip(t)[i] \in Digits

(***************************** format_message ******************************)
\* repr() of the text of a string
RECURSIVE EscapeRepr(_)
EscapeRepr(s) ==
    IF s = <<>> THEN <<>>
    ELSE (IF Head(s) = "\n" THEN <<"\\", "n">>
          ELSE IF Head(s) = "\\" THEN <<"\\", "\\">>
          ELSE <<Head(s)>>) \o EscapeRepr(Tail(s))

RECURSIVE Repr(_)
RECURSIVE ReprItems(_, _)
Repr(j) ==
    IF j.k = "str" THEN <<"'">> \o EscapeRepr(j.s) \o <<"'">>
    ELSE IF j.k = "num" THEN j.s
    ELSE IF j.k = "null" THEN <<"None">>
    ELSE IF j.k = "list" THEN <<"[">> \o ReprItems(j.c, FALSE) \o <<"]">>
    ELSE <<"{">> \o ReprItems(j.c, TRUE) \o <<"}">>

ReprItems(items, keyed) ==
    IF items = <<>> THEN <<>>
    ELSE LET one == (IF keyed THEN Repr(JStr(<<Head(items).n>>)) \o <<":", " ">>
                     ELSE <<>>) \o Repr(Head(items))
         IN  IF Len(items) = 1 THEN one
             ELSE one \o <<",", " ">> \o ReprItems(Tail(items), keyed)

\* str(x), what an f-string puts for x
PyStr(j) == IF j.k = "str" THEN j.s ELSE Repr(j)

SessionIdShown == 8
Take(s, n) == SubSeq(s, 1, IF Len(s) < n THEN Len(s) ELSE n)

\* x[:8]: a slice of a string or of a list; anything else raises
Sliceable(j) == j.k \in {"str", "list"}
SliceShown(j) ==
    IF j.k = "str" THEN Take(j.s, SessionIdShown)
    ELSE Repr(JList(Take(j.c, SessionIdShown)))

Placeholder == <<"(none)">>
OrPlaceholder(t) == IF t = <<>> THEN Placeholder ELSE t

Formatted(title, content) == [raised |-> FALSE, title |-> title, content |-> content]
FormatRaised == [raised |-> TRUE, title |-> "", content |-> <<>>]

Last2(user, ai) == [raised |-> FALSE, user |-> user, ai |-> ai]
Last2Raised == [raised |-> TRUE, user |-> <<>>, ai |-> <<>>]

\* the loop of lines 505-523: the last non-empty text of each role
RECURSIVE LastTurns(_, _, _)
LastTurns(items, user, ai) ==
    IF items = <<>> THEN Last2(user, ai)
    ELSE LET item == Head(items) IN
        IF ~IsDict(item) THEN Last2Raised
        ELSE LET msg_type == Get(item, "type", JStr(<<>>))
                 r == MessageTexts(Get(item, "message", JObj(<<>>)))
                 full_text == Join(r.texts, Blank)
             IN  IF r.raised THEN Last2Raised
                 ELSE IF full_text # <<>> /\ EqStr(msg_type, "human")
                 THEN LastTurns(Tail(items), full_text, ai)
                 ELSE IF full_text # <<>> /\ EqStr(msg_type, "assistant")
                 THEN LastTurns(Tail(items), user, full_text)
                 ELSE LastTurns(Tail(items), user, ai)

Now == "<now>"
\* the atom of a code fence, three backticks
Fence == "<fence>"

FormatClaude(d) ==
    LET transcript == Get(d, "transcript", JList(<<>>))
        last == IF Iterable(transcript) THEN LastTurns(IterItems(transcript), <<>>, <<>>)
                ELSE Last2Raised
        sid == Get(d, "session_id", JStr(<<"N", "/", "A">>))
    IN  IF last.raised \/ ~Sliceable(sid) THEN FormatRaised
        ELSE Formatted("Claude Code task done",
                <<"**time**: ", Now, "\n", "**cwd**: ">>
                \o PyStr(Get(d, "cwd", JStr(<<"N/A">>)))
                \o <<"\n", "**session**: ">> \o SliceShown(sid) \o <<"...">>
                \o <<"\n", "\n", "**user**:", "\n">> \o OrPlaceholder(last.user)
                \o <<"\n", "\n", "**ai**:", "\n">> \o OrPlaceholder(last.ai))

\* the loop of lines 542-548
RECURSIVE UserTexts(_)
UserTexts(items) ==
    IF items = <<>> THEN <<>>
    ELSE LET item == Head(items)
             content == IF IsDict(item) THEN Get(item, "content", JStr(<<>>)) ELSE JNull
         IN  (IF IsStrJ(item) /\ Strip(item.s) # <<>> THEN <<Strip(item.s)>>
              ELSE IF IsStrJ(content) /\ Strip(content.s) # <<>> THEN <<Strip(content.s)>>
              ELSE <<>>) \o UserTexts(Tail(items))

FormatCodex(d, evt) ==
    LET input_msgs == Get(d, "input-messages", JList(<<>>))
        user_texts == UserTexts(IterItems(input_msgs))
        user_msg == IF user_texts # <<>> THEN Join(user_texts, <<"\n">>) ELSE Placeholder
        last_msg == Get(d, "last-assistant-message", JStr(<<>>))
        ai_msg == IF IsStrJ(last_msg) THEN OrPlaceholder(Strip(last_msg.s))
                  ELSE IF IsDict(last_msg)
                  THEN OrPlaceholder(Strip(PyStr(Get(last_msg, "content", JStr(<<>>)))))
                  ELSE Placeholder
    IN  IF ~Iterable(input_msgs) THEN FormatRaised
        ELSE Formatted("Codex task done",
                <<"**time**: ", Now, "\n", "**cwd**: ">>
                \o PyStr(Get(d, "cwd", JStr(<<"N/A">>)))
                \o <<"\n", "**event**: ">> \o PyStr(evt)
                \o <<"\n", "\n", "**user**:", "\n">> \o user_msg
                \o <<"\n", "\n", "**ai**:", "\n">> \o ai_msg)

format_message(src, evt, d) ==
    IF src = "claude-code" THEN (IF IsDict(d) THEN FormatClaude(d) ELSE FormatRaised)
    ELSE IF src = "codex" THEN (IF IsDict(d) THEN FormatCodex(d, evt) ELSE FormatRaised)
    ELSE Formatted("AI task done",
            <<"**time**: ", Now, "\n", "**source**: ", src, "\n", "\n",
              "**data**:", "\n", Fence, "json", "\n">>
            \o Dumps(d, 0) \o <<"\n", Fence>>)

(***************************** _text_to_html *******************************)
\* _escape_html, lines 67-74
EscapeAtom(a) ==
    IF a = "&" THEN "&amp;"
    ELSE IF a = "<" THEN "&lt;"
    ELSE IF a = ">" THEN "&gt;"
    ELSE IF a = "\"" THEN "&quot;"
    ELSE a

escape_html(text) == [i \in 1..Len(text) |-> EscapeAtom(text[i])]

\* two asterisks at position j
Stars(s, j) == j + 1 <= Len(s) /\ s[j] = "*" /\ s[j + 1] = "*"

\* re.sub(r"\*\*(.+?)\*\*", r"<strong>\1</strong>", s): leftmost match, the
\* shortest non-empty content
RECURSIVE Bold(_)
Bold(s) ==
    IF s = <<>> THEN <<>>
    ELSE IF Stars(s, 1) /\ \E j \in 4..Len(s) : Stars(s, j)
    THEN LET j == CHOOSE j \in 4..Len(s) :
                      Stars(s, j) /\ \A k \in 4..(j - 1) : ~Stars(s, k)
         IN  <<"<strong>">> \o SubSeq(s, 3, j - 1) \o <<"</strong>">>
             \o Bold(SubSeq(s, j + 2, Len(s)))
    ELSE <<Head(s)>> \o Bold(Tail(s))

\* stripped.startswith of three backticks
StartsWithFence(stripped) == stripped # <<>> /\ Head(stripped) = Fence

\* the <pre> block of lines 167-176 and 196-205
Pre(code_lines) ==
    <<"<pre>">> \o escape_html(Join(code_lines, <<"\n">>)) \o <<"</pre>">>

\* lines 186-192
Rendered(line) ==
    LET escaped == Bold(escape_html(line))
    IN  IF Strip(escaped) # <<>> THEN escaped \o <<"<br>">> ELSE <<"<br>">>

\* the loop of lines 162-192
RECURSIVE TextLines(_, _, _, _)
TextLines(lines, html_parts, in_code, code_lines) ==
    IF lines = <<>>
    THEN [html_parts |-> html_parts, in_code |-> in_code, code_lines |-> code_lines]
    ELSE LET line == Head(lines) IN
        IF StartsWithFence(Strip(line))
        THEN IF in_code
             THEN TextLines(Tail(lines), Append(html_parts, Pre(code_lines)), FALSE, <<>>)
             ELSE TextLines(Tail(lines), html_parts, TRUE, code_lines)
        ELSE IF in_code
        THEN TextLines(Tail(lines), html_parts, TRUE, Append(code_lines, line))
        ELSE TextLines(Tail(lines), Append(html_parts, Rendered(line)), FALSE, code_lines)

text_to_html(text) ==
    LET r == TextLines(Split(text, "\n"), <<>>, FALSE, <<>>)
        html_parts == IF r.in_code /\ r.code_lines # <<>>
                      THEN Append(r.html_parts, Pre(r.code_lines))
                      ELSE r.html_parts
    IN  Join(html_parts, <<"\n">>)

(***************************** payloads ************************************)
MaxItems == 2     \* longest transcript / input-messages list drawn

SeqsUpTo(S, n) == UNION {[1..m -> S] : m \in 0..n}

TA == <<"a">>
TB == <<" ", "b", "\n">>
TBlank == <<" ">>

FragText(t) == JObj(<<Mem("type", JStr(<<"text">>)), Mem("text", JStr(t))>>)
FragImage == JObj(<<Mem("type", JStr(<<"image">>))>>)
FragNullText == JObj(<<Mem("type", JStr(<<"text">>)), Mem("text", JNull)>>)
WithContent(c) == JObj(<<Mem("role", JStr(<<"user">>)), Mem("content", c)>>)

\* content lists: joined fragments, nothing but blanks, a bare string
\* among fragments, a fragment whose text is null
ContentLists ==
    { <<FragText(TA), FragText(TB)>>, <<FragText(TBlank), FragImage>>,
      <<JStr(TB), FragText(TA)>>, <<FragNullText>> }

\* the `message` of a transcript item
Messages ==
    {JStr(TA), JStr(TB), JStr(TBlank), JNum(<<"5">>), JObj(<<>>),
     WithContent(JNull), WithContent(JStr(TA))}
    \cup {WithContent(JList(l)) : l \in ContentLists}

TranscriptItem(type, msg) == JObj(<<Mem("type", JStr(<<type>>)), Mem("message", msg)>>)

TranscriptItems ==
    {TranscriptItem(t, m) : t \in {"human", "assistant", "system"}, m \in Messages}
    \cup {JObj(<<Mem("message", JStr(TA))>>), JObj(<<Mem("type", JStr(<<"human">>))>>),
          JNum(<<"5">>)}

Cwd == Mem("cwd", JStr(<<"/tmp">>))

ClaudePayloads ==
    {JObj(<<Cwd, Mem("transcript", JList(t))>>) : t \in SeqsUpTo(TranscriptItems, MaxItems)}
    \cup {JObj(<<Cwd>>), JObj(<<Cwd, Mem("transcript", JNull)>>)}

\* an entry of input-messages, or last-assistant-message
Entries ==
    {JStr(TA), JStr(TB), JStr(TBlank), JNum(<<"5">>), JObj(<<>>),
     WithContent(JStr(TA)), WithContent(JStr(TBlank)), WithContent(JNull)}
    \cup {WithContent(JList(l)) : l \in ContentLists}

Atc == Mem("type", JStr(<<"agent-turn-complete">>))

CodexInputs ==
    {<<Mem("input-messages", JList(l))>> : l \in SeqsUpTo(Entries, MaxItems)}
    \cup {<<>>, <<Mem("input-messages", JNull)>>, <<Mem("input-messages", JStr(TA \o TB))>>}

CodexLast == {<<Mem("last-assistant-message", e)>> : e \in Entries} \cup {<<>>}

CodexPayloads == {JObj(<<Atc>> \o i \o l) : i \in CodexInputs, l \in CodexLast}

PayloadsOf(src) ==
    IF src = "claude-code" THEN ClaudePayloads
    ELSE IF src = "codex" THEN CodexPayloads
    ELSE {JObj(<<Cwd>>), JObj(<<Cwd, Mem("transcript", JList(<<JStr(TB)>>))>>)}

(***************************** the program *********************************)
NoConv == [raised |-> FALSE, msgs |-> <<>>]
NoMessage == [raised |-> FALSE, title |-> "", content |-> <<>>]
NoResults == [c \in {} |-> FALSE]
EmptyDict == JObj(<<>>)

\* truth value of a JSON value
Truthy(j) ==
    IF j.k = "null" THEN FALSE
    ELSE IF j.k = "str" THEN j.s # <<>>
    ELSE IF j.k = "num" THEN j.s # <<"0">>
    ELSE j.c # <<>>

\* a text handed to json.loads: blank, malformed, or the text of a value
Text(j) == [blank |-> FALSE, ok |-> TRUE, val |-> j]
Malformed == [blank |-> FALSE, ok |-> FALSE, val |-> JNull]
BlankText == [blank |-> TRUE, ok |-> FALSE, val |-> JNull]
Loads(t) == ~t.blank /\ t.ok

NoArg == [given |-> FALSE, text |-> BlankText]
Arg(t) == [given |-> TRUE, text |-> t]
Tty == [tty |-> TRUE, text |-> BlankText]
Piped(t) == [tty |-> FALSE, text |-> t]

CHANNEL_HANDLERS == {<<"email">>}

Required == <<"SMTP_HOST", "SMTP_USER", "SMTP_PASSWORD", "EMAIL_FROM", "EMAIL_TO">>

Config(key, default) == get_config(environ, env, key, default)

UseSsl == Lower(Config("SMTP_USE_SSL", <<"true">>)) = <<"true">>

Fresh ==
    /\ channels = <<>>
    /\ stdinRead = FALSE
    /\ conv = NoConv
    /\ results = NoResults
    /\ idx = 0
    /\ ret = "none"
    /\ handled = <<>>
    /\ smtp = <<>>
    /\ connections = 0
    /\ calls = <<>>
    /\ exitCode = -1
    /\ html = <<>>

Idle ==
    /\ Fresh
    /\ env = NoFile
    /\ source = "unknown"
    /\ event_type = JStr(<<>>)
    /\ data = EmptyDict
    /\ message = NoMessage

\* main, lines 622-630
MainStart ==
    /\ pc = "main"
    /\ env' = load_env(file)
    /\ channels' = get_enabled_channels(environ, env')
    /\ calls' = calls \o <<"load_env", "get_enabled_channels">>
    /\ IF channels' = <<>>
       THEN pc' = "exit" /\ exitCode' = 0
       ELSE pc' = "parse_input" /\ UNCHANGED exitCode
    /\ UNCHANGED <<inputs, parsed, message, conv, dispatch, smtp, connections,
                   html>>

\* ParseArg without the early return of lines 602-603
ParseArgKeepsEveryEvent ==
    /\ pc = "parse_input"
    /\ calls' = Append(calls, "parse_input")
    /\ IF argv.given /\ Loads(argv.text)
       THEN IF ~IsDict(argv.text.val)
            THEN /\ pc' = "crashed"
                 /\ source' = "codex"
                 /\ data' = argv.text.val
                 /\ UNCHANGED event_type
            ELSE /\ source' = "codex"
                 /\ event_type' = Get(argv.text.val, "type", JStr(<<>>))
                 /\ data' = argv.text.val
                 /\ pc' = "parse_stdin"
       ELSE /\ pc' = "parse_stdin"
            /\ UNCHANGED <<source, event_type, data, html>>
    /\ UNCHANGED <<inputs, env, channels, stdinRead, message, conv, dispatch, smtp,
                   connections, exitCode, html>>

\* parse_input, lines 590-606: the argument
ParseArg ==
    /\ pc = "parse_input"
    /\ calls' = Append(calls, "parse_input")
    /\ IF argv.given /\ Loads(argv.text)
       THEN IF ~IsDict(argv.text.val)
            THEN \* data.get of a value that is no dict: AttributeError
                 /\ pc' = "crashed"
                 /\ source' = "codex"
                 /\ data' = argv.text.val
                 /\ UNCHANGED event_type
            ELSE /\ source' = "codex"
                 /\ event_type' = Get(argv.text.val, "type", JStr(<<>>))
                 /\ IF ~EqStr(event_type', "agent-turn-complete")
                    THEN data' = JNull /\ pc' = "main_check"
                    ELSE data' = argv.text.val /\ pc' = "parse_stdin"
       ELSE /\ pc' = "parse_stdin"
            /\ UNCHANGED <<source, event_type, data, html>>
    /\ UNCHANGED <<inputs, env, channels, stdinRead, message, conv, dispatch, smtp,
                   connections, exitCode, html>>

\* ParseStdin without the `not data` of line 609
ParseStdinAlways ==
    /\ pc = "parse_stdin"
    /\ IF ~stdin.tty
       THEN /\ stdinRead' = TRUE
            /\ IF Loads(stdin.text)
               THEN /\ data' = stdin.text.val
                    /\ source' = "claude-code"
                    /\ event_type' = JStr(<<"stop">>)
               ELSE UNCHANGED <<source, event_type, data, html>>
       ELSE UNCHANGED <<source, event_type, data, stdinRead, html>>
    /\ pc' = "main_check"
    /\ UNCHANGED <<inputs, env, channels, message, conv, dispatch, smtp, connections,
                   calls, exitCode, html>>

\* parse_input, lines 608-619: the standard input
ParseStdin ==
    /\ pc = "parse_stdin"
    /\ IF ~Truthy(data) /\ ~stdin.tty
       THEN /\ stdinRead' = TRUE
            /\ IF Loads(stdin.text)
               THEN /\ data' = stdin.text.val
                    /\ source' = "claude-code"
                    /\ event_type' = JStr(<<"stop">>)
               ELSE UNCHANGED <<source, event_type, data, html>>
       ELSE UNCHANGED <<source, event_type, data, stdinRead, html>>
    /\ pc' = "main_check"
    /\ UNCHANGED <<inputs, env, channels, message, conv, dispatch, smtp, connections,
                   calls, exitCode, html>>

\* main, lines 633-641
MainCheck ==
    /\ pc = "main_check"
    /\ IF data = JNull THEN pc' = "exit" /\ exitCode' = 0
       ELSE IF ~Truthy(data) THEN pc' = "exit" /\ exitCode' = 1
       ELSE pc' = "format_message" /\ UNCHANGED exitCode
    /\ UNCHANGED <<inputs, env, channels, parsed, message, conv, dispatch, smtp,
                   connections, calls, html>>

\* main, line 644
Format ==
    /\ pc = "format_message"
    /\ calls' = Append(calls, "format_message")
    /\ LET r == format_message(source, event_type, data) IN
       IF r.raised
       THEN pc' = "crashed" /\ UNCHANGED message
       ELSE pc' = "send_notification" /\ message' = r
    /\ UNCHANGED <<inputs, env, channels, parsed, conv, dispatch, smtp, connections,
                   exitCode, html>>

\* send_notification, lines 478-479
SendNotification ==
    /\ pc = "send_notification"
    /\ calls' = calls \o <<"send_notification", "get_enabled_channels">>
    /\ channels' = get_enabled_channels(environ, env)
    /\ results' = NoResults
    /\ idx' = 1
    /\ pc' = "dispatch"
    /\ UNCHANGED <<inputs, env, parsed, message, conv, ret, handled, smtp,
                   connections, exitCode, html>>

\* send_notification, lines 481-486 and 492: the next channel
Dispatch ==
    /\ pc = "dispatch"
    /\ IF idx > Len(channels) THEN pc' = "summary" /\ UNCHANGED <<idx, calls, html>>
       ELSE IF channels[idx] \in CHANNEL_HANDLERS
       THEN pc' = "send_email" /\ calls' = Append(calls, "send_email") /\ UNCHANGED idx
       ELSE pc' = "dispatch" /\ idx' = idx + 1 /\ UNCHANGED calls
    /\ UNCHANGED <<inputs, env, channels, parsed, message, conv, results, ret, handled,
                   smtp, connections, exitCode, html>>

\* EmailCheck with `any` for the `all` of line 428
EmailCheckAny ==
    /\ pc = "send_email"
    /\ smtp' = <<>>
    /\ IF \A i \in 1..Len(Required) : Config(Required[i], <<>>) = <<>>
       THEN pc' = "handler_return" /\ ret' = "false"
       ELSE pc' = "email_build" /\ ret' = "none"
    /\ UNCHANGED <<inputs, env, channels, parsed, message, conv, results, idx, handled,
                   connections, calls, exitCode, html>>

\* send_email, lines 422-429
EmailCheck ==
    /\ pc = "send_email"
    /\ smtp' = <<>>
    /\ IF \E i \in 1..Len(Required) : Config(Required[i], <<>>) = <<>>
       THEN pc' = "handler_return" /\ ret' = "false"
       ELSE pc' = "email_build" /\ ret' = "none"
    /\ UNCHANGED <<inputs, env, channels, parsed, message, conv, results, idx, handled,
                   connections, calls, exitCode, html>>

\* send_email, lines 431-445: the port, and the message with its HTML part
\* (build_email_html, which extracts the conversation)
EmailBuild ==
    /\ pc = "email_build"
    /\ IF ~ParsesAsInt(Config("SMTP_PORT", <<"4", "6", "5">>))
       THEN pc' = "handler_return" /\ ret' = "raised" /\ UNCHANGED <<conv, calls, html>>
       ELSE LET d == IF Truthy(data) THEN data ELSE EmptyDict
                r == IF IsDict(d) THEN extract_conversation(d, source) ELSE NoConv
            IN  /\ conv' = r
                /\ calls' = calls \o (IF IsDict(d) THEN <<"build_email_html", "extract_conversation">>
                                      ELSE <<"build_email_html">>)
                /\ IF r.raised
                   THEN pc' = "handler_return" /\ ret' = "raised"
                   ELSE pc' = "smtp_connect" /\ UNCHANGED ret
    /\ UNCHANGED <<inputs, env, channels, parsed, message, results, idx, handled, smtp,
                   connections, exitCode, html>>

Op(name, ok) == [op |-> name, ok |-> ok]

\* SmtpStep without the except of lines 458-460
SmtpStepNoExcept(at, name, next) ==
    /\ pc = at
    /\ \E ok \in BOOLEAN :
        /\ smtp' = Append(smtp, Op(name, ok))
        /\ IF ok THEN pc' = next /\ UNCHANGED ret
           ELSE pc' = "handler_return" /\ ret' = "raised"
    /\ UNCHANGED <<inputs, env, channels, parsed, message, conv, results, idx, handled,
                   calls, exitCode, html>>

\* one SMTP operation inside the try of lines 447-460: it completes and the
\* call goes on at `next`, or it raises and the except returns False
SmtpStep(at, name, next) ==
    /\ pc = at
    /\ \E ok \in BOOLEAN :
        /\ smtp' = Append(smtp, Op(name, ok))
        /\ IF ok THEN pc' = next /\ UNCHANGED ret
           ELSE pc' = "handler_return" /\ ret' = "false"
    /\ UNCHANGED <<inputs, env, channels, parsed, message, conv, results, idx, handled,
                   calls, exitCode, html>>

\* lines 448-451
SmtpConnect ==
    /\ connections' = connections + 1
    /\ IF UseSsl THEN SmtpStep("smtp_connect", "SMTP_SSL", "smtp_login")
       ELSE SmtpStep("smtp_connect", "SMTP", "smtp_starttls")

\* line 452
SmtpStartTls ==
    /\ SmtpStep("smtp_starttls", "starttls", "smtp_login")
    /\ UNCHANGED connections

\* line 454
SmtpLogin ==
    /\ SmtpStep("smtp_login", "login", "smtp_sendmail")
    /\ UNCHANGED connections

\* line 455
SmtpSendmail ==
    /\ SmtpStep("smtp_sendmail", "sendmail", "smtp_quit")
    /\ UNCHANGED connections

\* line 456
SmtpQuit ==
    /\ SmtpStep("smtp_quit", "quit", "smtp_done")
    /\ UNCHANGED connections

\* line 457
EmailSent ==
    /\ pc = "smtp_done"
    /\ pc' = "handler_return"
    /\ ret' = "true"
    /\ UNCHANGED <<inputs, env, channels, parsed, message, conv, results, idx, handled,
                   smtp, connections, calls, exitCode, html>>

\* HandlerReturn without the try/except of lines 484-490
HandlerReturnPropagates ==
    /\ pc = "handler_return"
    /\ results' = IF ret = "raised" THEN results
                  ELSE [c \in DOMAIN results \cup {channels[idx]} |->
                           IF c = channels[idx] THEN ret = "true" ELSE results[c]]
    /\ handled' = Append(handled, [at |-> idx, channel |-> channels[idx], ret |-> ret])
    /\ idx' = idx + 1
    /\ ret' = "none"
    /\ pc' = IF ret = "raised" THEN "crashed" ELSE "dispatch"
    /\ UNCHANGED <<inputs, env, channels, parsed, message, conv, smtp, connections,
                   calls, exitCode, html>>

\* send_notification, lines 484-490: the handler's result, or False when it raised
HandlerReturn ==
    /\ pc = "handler_return"
    /\ results' = [c \in DOMAIN results \cup {channels[idx]} |->
                      IF c = channels[idx] THEN ret = "true" ELSE results[c]]
    /\ handled' = Append(handled, [at |-> idx, channel |-> channels[idx], ret |-> ret])
    /\ idx' = idx + 1
    /\ ret' = "none"
    /\ pc' = "dispatch"
    /\ UNCHANGED <<inputs, env, channels, parsed, message, conv, smtp, connections,
                   calls, exitCode, html>>

\* Summary counting the entries for the successes of line 650
SummaryCountsEntries ==
    /\ pc = "summary"
    /\ exitCode' = IF DOMAIN results # {} THEN 0 ELSE 1
    /\ pc' = "exit"
    /\ UNCHANGED <<inputs, env, channels, parsed, message, conv, dispatch, smtp,
                   connections, calls, html>>

\* main, lines 650-656
Summary ==
    /\ pc = "summary"
    /\ exitCode' = IF \E c \in DOMAIN results : results[c] THEN 0 ELSE 1
    /\ pc' = "exit"
    /\ UNCHANGED <<inputs, env, channels, parsed, message, conv, dispatch, smtp,
                   connections, calls, html>>

SendEmail ==
    \/ EmailCheck \/ EmailBuild \/ SmtpConnect \/ SmtpStartTls \/ SmtpLogin
    \/ SmtpSendmail \/ SmtpQuit \/ EmailSent

Next ==
    \/ MainStart \/ ParseArg \/ ParseStdin \/ MainCheck \/ Format
    \/ SendNotification \/ Dispatch \/ HandlerReturn \/ Summary
    \/ SendEmail

(***************************** inputs of a run *****************************)
MaxChannels == 3   \* longest NOTIFY_CHANNELS value drawn, in atoms

ChannelTexts == SeqsUpTo({"Email", "sms", " ", ","}, MaxChannels)

V == <<"v">>
\* a file that sets the five required keys, and maybe more
FileWith(more) ==
    [exists |-> TRUE,
     map |-> [k \in Keys |->
                IF k \in DOMAIN more THEN Val(more[k])
                ELSE IF \E i \in 1..Len(Required) : Required[i] = k THEN Val(V)
                ELSE Unset]]
Absent == [exists |-> FALSE, map |-> NoFile]

Only(key, v) == [k \in {key} |-> v]

Files ==
    {Absent, FileWith(Only("NOTIFY_CHANNELS", <<"Email">>)),
     FileWith(Only("SMTP_USE_SSL", <<"false">>))}

Sid(j) == Mem("session_id", j)

\* what argv[1] may be
ArgTexts ==
    {BlankText, Malformed, Text(JList(<<JNum(<<"1">>)>>)), Text(EmptyDict),
     Text(JObj(<<Mem("type", JStr(<<"turn-started">>))>>)),
     Text(JObj(<<Atc>>)),
     Text(JObj(<<Atc, Mem("input-messages", JList(<<JStr(TA)>>)),
                 Mem("last-assistant-message", JStr(TB))>>)),
     Text(JObj(<<Atc, Mem("input-messages", JNull)>>)),
     Text(JObj(<<Atc, Mem("input-messages", JList(<<WithContent(JList(<<FragNullText>>))>>))>>))}

\* what is piped on stdin
StdinTexts ==
    {BlankText, Malformed, Text(JNull), Text(EmptyDict),
     Text(JList(<<JNum(<<"1">>)>>)),
     Text(JObj(<<Cwd, Mem("transcript", JList(<<TranscriptItem("human", JStr(TA)),
                                               TranscriptItem("assistant", JStr(TB))>>))>>)),
     Text(JObj(<<Cwd, Sid(JStr(<<"1", "2", "3", "4", "5", "6", "7", "8", "9">>))>>)),
     Text(JObj(<<Cwd, Sid(JNum(<<"5">>))>>)),
     Text(JObj(<<Mem("transcript", JList(<<JNum(<<"5">>)>>))>>))}

Init ==
    /\ pc = "main"
    /\ \E c \in {Unset} \cup {Val(t) : t \in ChannelTexts} :
          environ = [k \in Keys |-> IF k = "NOTIFY_CHANNELS" THEN c ELSE Unset]
    /\ file \in Files
    /\ argv \in {NoArg} \cup {Arg(t) : t \in ArgTexts}
    /\ stdin \in {Tty} \cup {Piped(t) : t \in StdinTexts}
    /\ Idle

Spec == Init /\ [][Next]_vars

(***************************** send_email, called by itself ****************)
EmailValues == {Unset, Val(<<>>), Val(V)}

\* the (source, payload) pairs send_email is called with
EmailCalls ==
    { <<"claude-code", JObj(<<Cwd, Mem("transcript", JList(<<TranscriptItem("human", JStr(TA))>>))>>)>>,
      <<"codex", JObj(<<Atc>>)>>,
      <<"codex", JObj(<<Atc, Mem("input-messages",
                                 JList(<<WithContent(JList(<<FragNullText>>))>>))>>)>> }

InitEmail ==
    /\ pc = "send_email"
    /\ environ \in [Keys -> EmailValues \cup {Val(<<"2", "5">>), Val(<<"TRUE">>), Val(<<"no">>)}]
    /\ \A i \in 1..Len(Required) : environ[Required[i]] \in EmailValues
    /\ environ["NOTIFY_CHANNELS"] = Unset
    /\ environ["SMTP_PORT"] \in {Unset, Val(<<"2", "5">>), Val(V)}
    /\ environ["SMTP_USE_SSL"] \in {Unset, Val(<<"TRUE">>), Val(<<"no">>)}
    /\ file \in {Absent, FileWith(Only("SMTP_PORT", <<"2", "5">>))}
    /\ argv = NoArg
    /\ stdin = Tty
    /\ Fresh
    /\ env = load_env(file)
    /\ \E c \in EmailCalls :
        /\ source = c[1]
        /\ data = c[2]
        /\ event_type = Get(c[2], "type", JStr(<<"stop">>))
        /\ message = format_message(source, event_type, data)

SpecEmail == InitEmail /\ [][SendEmail]_vars

(***************************** extract_conversation, applied **************)
InitExtract ==
    /\ pc = "extract"
    /\ environ = NoFile
    /\ file = Absent
    /\ argv = NoArg
    /\ stdin = Tty
    /\ Fresh
    /\ env = NoFile
    /\ event_type = JStr(<<>>)
    /\ message = NoMessage
    /\ source \in {"claude-code", "codex", "unknown"}
    /\ data \in PayloadsOf(source)

Extract ==
    /\ pc = "extract"
    /\ conv' = extract_conversation(data, source)
    /\ pc' = "extracted"
    /\ UNCHANGED <<inputs, env, channels, parsed, message, dispatch, smtp, connections,
                   calls, exitCode, html>>

NextExtract == Extract

SpecExtract == InitExtract /\ [][NextExtract]_vars

(***************************** format_message, applied *********************)
\* the event type main passes along with a payload of a source
EventOf(src, d) ==
    IF src = "codex" /\ IsDict(d) THEN Get(d, "type", JStr(<<>>))
    ELSE JStr(<<"stop">>)

InitFormat ==
    /\ pc = "format"
    /\ environ = NoFile
    /\ file = Absent
    /\ argv = NoArg
    /\ stdin = Tty
    /\ Fresh
    /\ env = NoFile
    /\ message = NoMessage
    /\ source \in {"claude-code", "codex"}
    /\ data \in PayloadsOf(source)
    /\ event_type = EventOf(source, data)

\* format_message and extract_conversation applied to the same payload
FormatMessage ==
    /\ pc = "format"
    /\ message' = format_message(source, event_type, data)
    /\ conv' = extract_conversation(data, source)
    /\ pc' = "formatted"
    /\ UNCHANGED <<inputs, env, channels, parsed, dispatch, smtp, connections,
                   calls, exitCode, html>>

NextFormat == FormatMessage

SpecFormat == InitFormat /\ [][NextFormat]_vars

(***************************** _text_to_html, applied **********************)
MaxLines == 3     \* most lines of a message text drawn

\* lines: empty, a word, a fence, an indented fence with a language, markup
\* to escape, a blank, a bold span
HtmlLines ==
    { <<>>, <<"a">>, <<Fence>>, <<" ", Fence, "json">>, <<"<", "b", ">">>, <<" ">>,
      <<"*", "*", "a", "*", "*">> }

HtmlTexts ==
    {Join(l, <<"\n">>) : l \in UNION {[1..m -> HtmlLines] : m \in 1..MaxLines}}

\* build_email_html renders the text of an extracted message, line 282
InitHtml ==
    /\ pc = "text_to_html"
    /\ environ = NoFile
    /\ file = Absent
    /\ argv = NoArg
    /\ stdin = Tty
    /\ channels = <<>>
    /\ stdinRead = FALSE
    /\ results = NoResults
    /\ idx = 0
    /\ ret = "none"
    /\ handled = <<>>
    /\ smtp = <<>>
    /\ connections = 0
    /\ calls = <<>>
    /\ exitCode = -1
    /\ html = <<>>
    /\ env = NoFile
    /\ source = "unknown"
    /\ event_type = JStr(<<>>)
    /\ data = EmptyDict
    /\ message = NoMessage
    /\ \E t \in HtmlTexts : conv = Returned(<<Msg("assistant", t)>>)

TextToHtml ==
    /\ pc = "text_to_html"
    /\ html' = text_to_html(conv.msgs[1].text)
    /\ pc' = "html"
    /\ UNCHANGED <<inputs, env, channels, parsed, message, conv, dispatch, smtp,
                   connections, calls, exitCode>>

NextHtml == TextToHtml

SpecHtml == InitHtml /\ [][NextHtml]_vars

(***************************** C6, C7: the extractor ***********************)
\* What the specification calls the derived text of a message: the trimmed
\* string, or the trimmed non-empty text fragments joined by a blank line;
\* a missing or wrong-typed field is absent.
NonEmptyText(t) == t # <<>>

FragmentText(c, bare) ==
    IF IsDict(c) /\ EqStr(Get(c, "type", JNull), "text")
       /\ IsStrJ(Get(c, "text", JStr(<<>>)))
    THEN Strip(Get(c, "text", JStr(<<>>)).s)
    ELSE IF bare /\ IsStrJ(c) THEN Strip(c.s)
    ELSE <<>>

JoinedFragments(l, bare) ==
    Join(SelectSeq([i \in 1..Len(l) |-> FragmentText(l[i], bare)], NonEmptyText), Blank)

\* claude-code: the derived text of a transcript item
TurnText(item) ==
    LET msg == IF IsDict(item) THEN Get(item, "message", JObj(<<>>)) ELSE JNull
        content == IF IsDict(msg) THEN Get(msg, "content", JList(<<>>)) ELSE JNull
    IN  IF IsStrJ(msg) THEN Strip(msg.s)
        ELSE IF IsList(content) THEN JoinedFragments(content.c, FALSE)
        ELSE <<>>

IsTurn(item) ==
    /\ IsDict(item)
    /\ IsTurnType(Get(item, "type", JStr(<<>>)))
    /\ TurnText(item) # <<>>

TurnMsg(item) ==
    Msg(IF EqStr(Get(item, "type", JNull), "human") THEN "user" ELSE "assistant",
        TurnText(item))

ListOf(d, key) ==
    LET v == Get(d, key, JList(<<>>)) IN IF IsList(v) THEN v.c ELSE <<>>

TurnsOf(d) ==
    LET turns == SelectSeq(ListOf(d, "transcript"), IsTurn)
    IN  [i \in 1..Len(turns) |-> TurnMsg(turns[i])]

\* codex: the derived text of an input-messages entry or of
\* last-assistant-message
CodexText(e) ==
    LET content == IF IsDict(e) THEN Get(e, "content", JStr(<<>>)) ELSE JNull
    IN  IF IsStrJ(e) THEN Strip(e.s)
        ELSE IF IsStrJ(content) THEN Strip(content.s)
        ELSE IF IsList(content) THEN JoinedFragments(content.c, TRUE)
        ELSE <<>>

HasCodexText(e) == CodexText(e) # <<>>

UsersOf(d) ==
    LET valid == SelectSeq(ListOf(d, "input-messages"), HasCodexText)
    IN  [i \in 1..Len(valid) |-> Msg("user", CodexText(valid[i]))]

LastOf(d) == CodexText(Get(d, "last-assistant-message", JStr(<<>>)))

\* every {"type": "text"} fragment of a content list carries a string
RECURSIVE StringTexts(_)
StringTexts(j) ==
    /\ (IsDict(j) /\ EqStr(Get(j, "type", JNull), "text"))
          => IsStrJ(Get(j, "text", JStr(<<>>)))
    /\ \A i \in 1..Len(j.c) : StringTexts(j.c[i])

\* the documented shape of a codex payload
CodexShaped(d) ==
    /\ IsList(Get(d, "input-messages", JList(<<>>)))
    /\ StringTexts(d)

ExtractedCodex == pc = "extracted" /\ source = "codex"

C7_OneMessagePerTurn ==
    (pc = "extracted" /\ source = "claude-code") =>
        /\ ~conv.raised
        /\ conv.msgs = TurnsOf(data)

(***************************** C1-C5, C8: the run of main ******************)
Called(f) == \E i \in 1..Len(calls) : calls[i] = f
AnySuccess == \E c \in DOMAIN results : results[c]

\* the value NOTIFY_CHANNELS resolves to, "" when it is set nowhere
ChannelSetting ==
    IF environ["NOTIFY_CHANNELS"].set THEN environ["NOTIFY_CHANNELS"].v
    ELSE IF file.exists /\ file.map["NOTIFY_CHANNELS"].set
    THEN file.map["NOTIFY_CHANNELS"].v
    ELSE <<>>

\* unset, empty, or nothing but blank comma-separated entries
NoChannelEnabled == \A i \in 1..Len(ChannelSetting) : ChannelSetting[i] \in {" ", "\n", ","}

ArgIsJson == argv.given /\ Loads(argv.text)
StdinIsJson == ~stdin.tty /\ Loads(stdin.text)

\* parse_input has returned to main
ParseReturned == Called("parse_input") /\ pc \notin {"parse_input", "parse_stdin"}
                 /\ ~(pc = "crashed" /\ ~Called("format_message"))

\* C1: when main returns, the exit code is 0 exactly when no channel is
\* enabled, or parse_input returned the no-payload sentinel, or some entry of
\* the result mapping is true; it is 1 exactly when the parsed payload is
\* empty or no entry of the result mapping is true.
C1_ExitCode ==
    pc = "exit" =>
        LET parsedOnce == Called("parse_input")
            sentinel == parsedOnce /\ data = JNull
            emptyPayload == parsedOnce /\ data # JNull /\ ~Truthy(data)
            dispatched == Called("send_notification")
        IN  /\ exitCode \in {0, 1}
            /\ exitCode = 0 <=> (channels = <<>> \/ sentinel \/ AnySuccess)
            /\ exitCode = 1 <=> (emptyPayload \/ (dispatched /\ ~AnySuccess))
            /\ dispatched => channels # <<>> /\ Truthy(data)

\* C1 witness: every enabled name is unregistered, the mapping is empty, exit 1
C1_Witness ==
    /\ pc = "exit" /\ exitCode = 1
    /\ Called("send_notification") /\ results = NoResults
    /\ channels = << <<"sms">>, <<"sms">> >>

\* C2: main never ends in an uncaught exception.
C2_NothingFatal == pc # "crashed"

\* the argument is a JSON object whose type is not agent-turn-complete
FilteredArg ==
    /\ ArgIsJson
    /\ IsDict(argv.text.val)
    /\ ~EqStr(Get(argv.text.val, "type", JNull), "agent-turn-complete")

\* C3: with such an argument parse_input returns the sentinel without reading
\* stdin, and main exits 0 without formatting, without invoking a handler and
\* without an SMTP connection.
C3_FilteredEvent ==
    FilteredArg =>
        /\ pc \in {"main", "parse_input", "main_check", "exit"}
        /\ ~stdinRead
        /\ ~Called("format_message") /\ ~Called("send_notification")
        /\ ~Called("send_email") /\ connections = 0
        /\ pc \in {"main_check", "exit"} /\ Called("parse_input")
              => data = JNull /\ source = "codex"
        /\ pc = "exit" => exitCode = 0

\* C3 witness: a filtered event with valid JSON piped on stdin, exited
C3_Witness ==
    /\ FilteredArg /\ pc = "exit" /\ Called("parse_input")
    /\ StdinIsJson /\ Truthy(stdin.text.val)
    /\ EqStr(event_type, "turn-started")

\* C4: with no channel enabled main returns 0 and nothing else happens: no
\* parsing, no extraction, no formatting, no handler, no SMTP connection.
C4_NoChannels ==
    NoChannelEnabled =>
        /\ pc \in {"main", "exit"}
        /\ pc = "exit" => exitCode = 0
        /\ \A i \in 1..Len(calls) : calls[i] \in {"load_env", "get_enabled_channels"}
        /\ ~stdinRead /\ connections = 0 /\ handled = <<>>
        /\ data = EmptyDict /\ conv = NoConv /\ message = NoMessage

\* C4 witness: blank entries in the environment hide the file's channel
C4_Witness ==
    /\ pc = "exit"
    /\ environ["NOTIFY_CHANNELS"] = Val(<<" ", ",", " ">>)
    /\ file.exists /\ file.map["NOTIFY_CHANNELS"].set
    /\ StdinIsJson

\* C5: the argument first, stdin only when the argument yielded nothing;
\* codex only from the argument, claude-code/stop only from piped stdin,
\* unknown and empty when neither yields data; malformed JSON is not raised.
C5_ParseInput ==
    /\ stdinRead => ~ArgIsJson /\ ~stdin.tty
    /\ (pc = "crashed" /\ ~Called("format_message")) => ArgIsJson
    /\ ParseReturned =>
        /\ source = "codex" =>
              ArgIsJson /\ ~stdinRead /\ data \in {argv.text.val, JNull}
        /\ source = "claude-code" =>
              /\ event_type = JStr(<<"stop">>)
              /\ stdinRead /\ StdinIsJson /\ data = stdin.text.val
        /\ source = "unknown" => data = EmptyDict /\ event_type = JStr(<<>>)
        /\ (~ArgIsJson /\ ~StdinIsJson) => source = "unknown" /\ data = EmptyDict
        /\ (~ArgIsJson /\ StdinIsJson) => source = "claude-code"
        /\ (~ArgIsJson /\ ~stdin.tty) => stdinRead
        /\ ArgIsJson => source = "codex"

\* C5 witness: a malformed argument fell through to the JSON on stdin
C5_Witness ==
    /\ pc = "main_check"
    /\ argv.given /\ ~Loads(argv.text)
    /\ source = "claude-code" /\ Truthy(data)

\* the positions of the channel list that name a registered handler
Registered == {i \in 1..Len(channels) : channels[i] \in CHANNEL_HANDLERS}

\* the last handler call for channel c
LastCall(c) ==
    handled[CHOOSE k \in 1..Len(handled) :
               handled[k].channel = c
               /\ \A l \in (k + 1)..Len(handled) : handled[l].channel # c]

\* C8: send_notification calls the handlers of the enabled channels in the
\* configured order, a raising handler stops none after it, and the mapping
\* has an entry for exactly the enabled names that are registered: the
\* handler's result, false when it raised.
C8_Dispatcher ==
    /\ Called("send_notification") =>
        /\ pc # "crashed"
        /\ \A k \in 1..Len(handled) :
              /\ handled[k].at \in Registered
              /\ handled[k].channel = channels[handled[k].at]
              /\ \A l \in 1..(k - 1) : handled[l].at < handled[k].at
    /\ (Called("send_notification") /\ pc \in {"summary", "exit"}) =>
        /\ Len(handled) = Cardinality(Registered)
        /\ DOMAIN results = {channels[i] : i \in Registered}
        /\ \A c \in DOMAIN results : results[c] = (LastCall(c).ret = "true")

\* C8 witness: the first handler call raised and the second was made
C8_Witness ==
    /\ pc = "summary"
    /\ Len(handled) = 2
    /\ handled[1].ret = "raised"
    /\ results = [c \in {<<"email">>} |-> FALSE]

(***************************** C9, C10: send_email *************************)
Resolved(key) ==
    IF environ[key].set THEN environ[key].v
    ELSE IF file.exists /\ file.map[key].set THEN file.map[key].v
    ELSE <<>>

MissingSetting == \E i \in 1..Len(Required) : Resolved(Required[i]) = <<>>

\* C9: when one of the five required settings resolves to an empty value
\* send_email returns false and attempts no SMTP connection; a connection is
\* attempted only when all five are non-empty.
C9_MissingSetting ==
    /\ MissingSetting =>
        /\ pc \in {"send_email", "handler_return"}
        /\ pc = "handler_return" => ret = "false"
        /\ connections = 0 /\ smtp = <<>>
    /\ (connections > 0 \/ smtp # <<>>) => ~MissingSetting

\* C9 witness: only SMTP_HOST is empty, set so in the environment over the file
C9_Witness ==
    /\ pc = "handler_return" /\ ret = "false"
    /\ environ["SMTP_HOST"] = Val(<<>>) /\ file.exists
    /\ \A i \in 2..Len(Required) : Resolved(Required[i]) # <<>>

Completed(ops) == [i \in 1..Len(ops) |-> Op(ops[i], TRUE)]

\* C10 as stated: send_email never propagates an exception to its caller.
\* (Stated here for the payloads whose text fragments are strings.)
C10_NeverPropagates == StringTexts(data) => ret # "raised"

\* C10 amended: send_email propagates no exception of the SMTP session: an
\* exception leaves send_email only before any connection is attempted (an
\* SMTP_PORT that is no integer, the building of the HTML part); once the
\* session has begun every failure of connect, STARTTLS, login, sendmail or
\* quit makes it return false, and it returns true only after connect,
\* (STARTTLS,) login, sendmail and quit all completed, in that order.
C10_SessionFailuresReturnFalse ==
    /\ ret = "raised" => smtp = <<>> /\ connections = 0
    /\ ret = "raised" =>
          \/ ~ParsesAsInt(Config("SMTP_PORT", <<"4", "6", "5">>))
          \/ ~StringTexts(data)
    /\ (\E i \in 1..Len(smtp) : ~smtp[i].ok) =>
          /\ pc = "handler_return" /\ ret = "false"
          /\ \A i \in 1..Len(smtp) : smtp[i].ok <=> i < Len(smtp)
    /\ ret = "true" =>
          smtp = IF UseSsl
                 THEN Completed(<<"SMTP_SSL", "login", "sendmail", "quit">>)
                 ELSE Completed(<<"SMTP", "starttls", "login", "sendmail", "quit">>)
    /\ (pc = "handler_return" /\ smtp # <<>> /\ \A i \in 1..Len(smtp) : smtp[i].ok)
          => ret = "true"

\* C10 witness: a STARTTLS session that completed, returning true
C10_Witness ==
    /\ pc = "handler_return" /\ ret = "true"
    /\ Len(smtp) = 5 /\ smtp[2] = Op("starttls", TRUE)


(***************************** C11: the plain-text summary *****************)
\* the position of a label of the template in the content
LabelAt(content, label) == CHOOSE i \in 1..Len(content) : content[i] = label

\* the user-instruction section: what stands between the line of its label
\* and the blank line before the label of the AI reply
UserSection(content) ==
    SubSeq(content, LabelAt(content, "**user**:") + 2,
           LabelAt(content, "**ai**:") - 3)

\* the AI-reply section: what follows the line of its label
AiSection(content) ==
    SubSeq(content, LabelAt(content, "**ai**:") + 2, Len(content))

IsUserMsg(m) == m.role = "user"
IsAssistantMsg(m) == m.role = "assistant"

\* the text of the last message of a role, or the placeholder
LastUserText(msgs) ==
    LET sel == SelectSeq(msgs, IsUserMsg)
    IN  IF sel = <<>> THEN <<"(none)">> ELSE sel[Len(sel)].text

LastAssistantText(msgs) ==
    LET sel == SelectSeq(msgs, IsAssistantMsg)
    IN  IF sel = <<>> THEN <<"(none)">> ELSE sel[Len(sel)].text

BothReturned == pc = "formatted" /\ ~message.raised /\ ~conv.raised

\* C11 as stated: for both sources, whenever format_message and
\* extract_conversation return for a payload, the user-instruction section
\* of the content is the text of the last user message the extractor yields
\* and the AI-reply section the text of its last assistant message, or the
\* placeholder when the role has no message.
C11_LastTurnOfEachRole ==
    BothReturned =>
        /\ UserSection(message.content) = LastUserText(conv.msgs)
        /\ AiSection(message.content) = LastAssistantText(conv.msgs)


(***************************** C12: unclosed code fences *******************)
\* a line that starts with three backticks after trimming
FenceLine(l) == Strip(l) # <<>> /\ Head(Strip(l)) = Fence

TextOf == conv.msgs[1].text
LinesOf == Split(TextOf, "\n")
FenceLines == {k \in 1..Len(LinesOf) : FenceLine(LinesOf[k])}

\* the last fence line opens a block that is never closed
Unclosed == Cardinality(FenceLines) % 2 = 1

LastFence == CHOOSE k \in FenceLines : \A j \in FenceLines : j <= k

\* the lines that follow the opening fence
AfterFence == SubSeq(LinesOf, LastFence + 1, Len(LinesOf))

Count(s, a) == Cardinality({i \in 1..Len(s) : s[i] = a})

EndsWith(s, t) ==
    Len(s) >= Len(t) /\ SubSeq(s, Len(s) - Len(t) + 1, Len(s)) = t

\* C12 as stated: when the last fence line of the text opens a block that
\* is never closed, the output holds one closed <pre> block per opening
\* fence, and the block of the last fence closes the output and contains
\* every line that follows that fence, also when no line follows it.
C12_UnclosedFenceClosed ==
    (pc = "html" /\ Unclosed) =>
        /\ Count(html, "<pre>") = (Cardinality(FenceLines) + 1) \div 2
        /\ Count(html, "</pre>") = (Cardinality(FenceLines) + 1) \div 2
        /\ EndsWith(html, <<"<pre>">> \o escape_html(Join(AfterFence, <<"\n">>))
                          \o <<"</pre>">>)

====
